---- MODULE Spec2Model ----
(***************************************************************************)
(* Serial port logger (serial_port_logger.py, driven by app.py).           *)
(*                                                                         *)
(* One logging session: the thread that runs SerialPortLogger.run, the    *)
(* read loop (log_data), the connection monitor (check_connection_status), *)
(* the operator's stop (stop_logging), the serial device, the file system  *)
(* and the clock.  Text is a sequence of one-character strings.            *)
(***************************************************************************)
EXTENDS Integers, Sequences, FiniteSets, TLC

VARIABLES
    now,                 \* the clock (time.time(), datetime.now()), in seconds
    config,              \* self.config: a dictionary, with or without "log_max_size"
    is_logging,          \* self.is_logging
    serial_port,         \* self.serial_port: "None", "open" or "closed" (is_open)
    log_file,            \* self.log_file: None or a file name
    current_log_size,    \* self.current_log_size
    last_data_received,  \* self.last_data_received
    disk,                \* the log directory: file name -> the data written to it
    readonly,            \* the files whose mode is 0o444
    script,              \* the byte chunks the device sends, in order
    pos,                 \* how many of them have arrived
    rx,                  \* the bytes waiting in the port's input buffer (in_waiting)
    buffer,              \* log_data's local buffer (the carry-over)
    line,                \* log_data's local line
    out,                 \* what was inserted into the log_output widget, in order
    health,              \* the colour last passed to status_callback
    runpc,               \* position of the thread that executes run()
    rpc,                 \* position of the read loop thread (log_data)
    rwake,               \* when the read loop's time.sleep(600) ends
    mpc,                 \* position of the monitor thread (check_connection_status)
    mwake,               \* when the monitor's time.sleep(10) ends
    spc,                 \* position of the operator's stop_logging call
    faults,              \* transport failures the device has produced
    iofails,             \* file system failures the disk has produced
    errors,              \* SerialExceptions caught by log_data's except clause
    reds,                \* status_callback("red") calls made by log_data
    rotated,             \* times rotate_logs_if_needed replaced self.log_file
    in_reconnect,        \* a call of reconnect_after_delay is in progress
    polled_empty         \* log_data's last poll found no bytes, and it has not waited since

vars == <<now, config, is_logging, serial_port, log_file, current_log_size,
          last_data_received, disk, readonly, script, pos, rx, buffer, line, out,
          health, runpc, rpc, rwake, mpc, mwake, spc, faults, iofails, errors,
          reds, rotated, in_reconnect, polled_empty>>

----------------------------------------------------------------------------
(* Bounds of the model. *)

MaxTime == 670
MaxFaults == 1
MaxIOFails == 1
MaxLen == 4

----------------------------------------------------------------------------
(* Program constants. *)

default_log_max_size == 1048576
stale_after == 60
check_interval == 10
reconnect_delay == 600

----------------------------------------------------------------------------
(* Text. *)

NL == "\n"
Whitespace == {" ", "\r", "\t", NL}

\* The two bytes of one two-byte UTF-8 character, and the character.
LeadByte == "C3"
ContByte == "A9"
TwoByteChar == "e'"

LostMsg == <<"Serial connection lost.", NL>>

RECURSIVE Decode(_)
\* bytes.decode('utf-8', errors='ignore'): a byte that is not part of a complete
\* sequence inside this chunk is dropped.
Decode(bytes) ==
    IF bytes = <<>> THEN <<>>
    ELSE IF Head(bytes) = LeadByte
         THEN IF Len(bytes) >= 2 /\ bytes[2] = ContByte
              THEN <<TwoByteChar>> \o Decode(SubSeq(bytes, 3, Len(bytes)))
              ELSE Decode(Tail(bytes))
         ELSE IF Head(bytes) = ContByte
              THEN Decode(Tail(bytes))
              ELSE <<Head(bytes)>> \o Decode(Tail(bytes))

HasNewline(s) == \E i \in 1..Len(s) : s[i] = NL

FirstNewline(s) == CHOOSE i \in 1..Len(s) : s[i] = NL /\ \A j \in 1..(i - 1) : s[j] # NL

\* buffer.split("\n", 1): what precedes the first newline, and what follows it.
SplitFirst(s) ==
    [line |-> SubSeq(s, 1, FirstNewline(s) - 1),
     rest |-> SubSeq(s, FirstNewline(s) + 1, Len(s))]

RECURSIVE LStrip(_)
LStrip(s) == IF s # <<>> /\ Head(s) \in Whitespace THEN LStrip(Tail(s)) ELSE s

RECURSIVE RStrip(_)
RStrip(s) ==
    IF s # <<>> /\ s[Len(s)] \in Whitespace THEN RStrip(SubSeq(s, 1, Len(s) - 1)) ELSE s

\* str.strip()
Strip(s) == RStrip(LStrip(s))

\* The loop below with `if` in place of `while`: one line per chunk.
ProcessLinesOnce(buf, emitted) ==
    IF HasNewline(buf)
    THEN [lines |-> Append(emitted, Append(Strip(SplitFirst(buf).line), NL)),
          buffer |-> SplitFirst(buf).rest]
    ELSE [lines |-> emitted, buffer |-> buf]

RECURSIVE ProcessLines(_, _)
\* while "\n" in buffer: split off the first line, strip it, emit line + "\n".
ProcessLines(buf, emitted) ==
    IF HasNewline(buf)
    THEN ProcessLines(SplitFirst(buf).rest,
                      Append(emitted, Append(Strip(SplitFirst(buf).line), NL)))
    ELSE [lines |-> emitted, buffer |-> buf]

\* One pass of the read loop's body over a chunk of decoded text:
\* buffer += data, then the loop over the complete lines.
FeedChunk(buf, data) == ProcessLines(buf \o data, <<>>)

RECURSIVE SumLen(_)
SumLen(ss) == IF ss = <<>> THEN 0 ELSE Len(Head(ss)) + SumLen(Tail(ss))

----------------------------------------------------------------------------
(* Files, configuration, device input. *)

None == <<>>

\* datetime.now().strftime("%H_%M_%S"): the time of day, to the second.
FileName(t) == <<(t \div 3600) % 24, (t \div 60) % 60, t % 60>>

\* self.config.get("log_max_size", 1024 * 1024)
LogMaxSize(cfg) ==
    IF "log_max_size" \in DOMAIN cfg THEN cfg["log_max_size"] ELSE default_log_max_size

\* os.path.getsize of an existing file
GetSize(d, f) == SumLen(d[f])

NeedsRotationStrict(size, max) == size > max

\* the test of rotate_logs_if_needed
NeedsRotation(size, max) == size >= max

IsStaleAtThreshold(elapsed) == elapsed >= stale_after

\* the test of check_connection_status
IsStale(elapsed) == elapsed > stale_after

\* open(path, 'a') followed by f.write(data) on the file name f
Appended(d, f, data) ==
    [g \in DOMAIN d \cup {f} |->
        IF g = f THEN (IF f \in DOMAIN d THEN Append(d[f], data) ELSE <<data>>) ELSE d[g]]

\* open(path, 'a') creates the file when it is missing
Touched(d, f) == [g \in DOMAIN d \cup {f} |-> IF g \in DOMAIN d THEN d[g] ELSE <<>>]

ScriptRotation ==
    << <<"a", "b", NL>>, <<"c", "d", "e", "f", "g", "h", NL>>, <<"i", "j", NL>> >>

ScriptPartial ==
    << <<"a", LeadByte>>, <<ContByte, NL, " ", "b">>, <<" ", NL>> >>

Scripts == {ScriptRotation, ScriptPartial}

Configs == {[log_max_size |-> 10], [k \in {} |-> 0]}

\* The instants at which the clock is observed: the start, one monitor period
\* later, the staleness threshold and the end of a reconnection delay, and their sums.
Instants ==
    {a + b + c : a \in {0, check_interval}, b \in {0, stale_after},
                 c \in {0, reconnect_delay}}

\* A time.sleep that ends at `wake`, seen at time t: 0 once it has ended.
Pending(wake, t) == IF wake <= t THEN 0 ELSE wake

----------------------------------------------------------------------------
(* The session. *)

\* SerialPortLogger.__init__, called from SerialLoggerApp.start_logging
Init ==
    /\ now = 0
    /\ config \in Configs
    /\ is_logging = FALSE
    /\ serial_port = "None"
    /\ log_file = None
    /\ current_log_size = 0
    /\ last_data_received = now
    /\ disk = [f \in {} |-> <<>>]
    /\ readonly = {}
    /\ script \in Scripts
    /\ pos = 0
    /\ rx = <<>>
    /\ buffer = <<>>
    /\ line = <<>>
    /\ out = <<>>
    /\ health = "red"
    /\ runpc = "create"
    /\ rpc = "none"
    /\ rwake = 0
    /\ mpc = "none"
    /\ mwake = 0
    /\ spc = "idle"
    /\ faults = 0
    /\ iofails = 0
    /\ errors = 0
    /\ reds = 0
    /\ rotated = 0
    /\ in_reconnect = FALSE
    /\ polled_empty = FALSE

\* time passes: the clock moves on to a later instant
Tick ==
    /\ \E t \in Instants : t > now /\ t <= MaxTime /\ now' = t
    /\ rwake' = Pending(rwake, now')
    /\ mwake' = Pending(mwake, now')
    /\ UNCHANGED <<config, is_logging, serial_port, log_file, current_log_size,
                   last_data_received, disk, readonly, script, pos, rx, buffer, line,
                   out, health, runpc, rpc, mpc, spc, faults, iofails, errors, reds,
                   rotated,
                   in_reconnect, polled_empty>>

\* the device sends its next chunk while the port is open
Arrive ==
    /\ serial_port = "open"
    /\ pos < Len(script)
    /\ rx' = rx \o script[pos + 1]
    /\ pos' = pos + 1
    /\ UNCHANGED <<now, config, is_logging, serial_port, log_file, current_log_size,
                   last_data_received, disk, readonly, script, buffer, line, out,
                   health, runpc, rpc, rwake, mpc, mwake, spc, faults, iofails, errors,
                   reds, rotated,
                   in_reconnect, polled_empty>>

\* start_logging: self.logger.create_new_log_file()
CreateNewLogFile ==
    /\ runpc = "create"
    /\ log_file' = FileName(now)
    /\ runpc' = "flag"
    /\ UNCHANGED <<now, config, is_logging, serial_port, current_log_size,
                   last_data_received, disk, readonly, script, pos, rx, buffer, line,
                   out, health, rpc, rwake, mpc, mwake, spc, faults, iofails, errors,
                   reds, rotated,
                   in_reconnect, polled_empty>>

\* run: self.is_logging = True
Run_Flag ==
    /\ runpc = "flag"
    /\ is_logging' = TRUE
    /\ runpc' = "open"
    /\ UNCHANGED <<now, config, serial_port, log_file, current_log_size,
                   last_data_received, disk, readonly, script, pos, rx, buffer, line,
                   out, health, rpc, rwake, mpc, mwake, spc, faults, iofails, errors,
                   reds, rotated,
                   in_reconnect, polled_empty>>

\* run: self.serial_port = serial.Serial(port, baudrate, timeout=1)
Run_Open ==
    /\ runpc = "open"
    /\ serial_port' = "open"
    /\ runpc' = "spawn"
    /\ UNCHANGED <<now, config, is_logging, log_file, current_log_size,
                   last_data_received, disk, readonly, script, pos, rx, buffer, line,
                   out, health, rpc, rwake, mpc, mwake, spc, faults, iofails, errors,
                   reds, rotated,
                   in_reconnect, polled_empty>>

\* run: serial.Serial raises SerialException, which nothing in run catches
Run_OpenFail ==
    /\ runpc = "open"
    /\ faults < MaxFaults
    /\ faults' = faults + 1
    /\ runpc' = "crashed"
    /\ UNCHANGED <<now, config, is_logging, serial_port, log_file, current_log_size,
                   last_data_received, disk, readonly, script, pos, rx, buffer, line,
                   out, health, rpc, rwake, mpc, mwake, spc, iofails, errors, reds,
                   rotated,
                   in_reconnect, polled_empty>>

\* run: the two threads are started
Run_Spawn ==
    /\ runpc = "spawn"
    /\ rpc' = "while"
    /\ mpc' = "while"
    /\ runpc' = "done"
    /\ UNCHANGED <<now, config, is_logging, serial_port, log_file, current_log_size,
                   last_data_received, disk, readonly, script, pos, rx, buffer, line,
                   out, health, rwake, mwake, spc, faults, iofails, errors, reds,
                   rotated,
                   in_reconnect, polled_empty>>

\* The step below with the loop test of log_data ignoring the flag.
RL_WhileForever ==
    /\ rpc = "while"
    /\ rpc' = "poll"
    /\ UNCHANGED <<now, config, is_logging, serial_port, log_file, current_log_size,
                   last_data_received, disk, readonly, script, pos, rx, buffer, line,
                   out, health, runpc, rwake, mpc, mwake, spc, faults, iofails, errors,
                   reds, rotated, in_reconnect, polled_empty>>

\* log_data: while self.is_logging
RL_While ==
    /\ rpc = "while"
    /\ rpc' = IF is_logging THEN "poll" ELSE "done"
    /\ UNCHANGED <<now, config, is_logging, serial_port, log_file, current_log_size,
                   last_data_received, disk, readonly, script, pos, rx, buffer, line,
                   out, health, runpc, rwake, mpc, mwake, spc, faults, iofails, errors,
                   reds, rotated,
                   in_reconnect, polled_empty>>

\* log_data: if self.serial_port.in_waiting: data = read(in_waiting).decode(...);
\* buffer += data.  A closed port raises PortNotOpenError, a SerialException.
RL_Poll ==
    /\ rpc = "poll"
    /\ IF serial_port # "open"
       THEN /\ errors' = errors + 1
            /\ rpc' = "lost"
            /\ UNCHANGED <<rx, buffer>>
       ELSE IF rx = <<>>
            THEN /\ rpc' = "while"
                 /\ UNCHANGED <<rx, buffer, errors>>
            ELSE /\ buffer' = buffer \o Decode(rx)
                 /\ rx' = <<>>
                 /\ rpc' = "split"
                 /\ UNCHANGED errors
    /\ polled_empty' = (IF serial_port = "open" THEN rx = <<>> ELSE polled_empty)
    /\ UNCHANGED <<now, config, is_logging, serial_port, log_file, current_log_size,
                   last_data_received, disk, readonly, script, pos, line, out, health,
                   runpc, rwake, mpc, mwake, spc, faults, iofails, reds, rotated,
                   in_reconnect>>

\* log_data: the device fails under in_waiting or read (SerialException); the
\* handle stays open
RL_PollFault ==
    /\ rpc = "poll"
    /\ serial_port = "open"
    /\ faults < MaxFaults
    /\ faults' = faults + 1
    /\ errors' = errors + 1
    /\ rpc' = "lost"
    /\ UNCHANGED <<now, config, is_logging, serial_port, log_file, current_log_size,
                   last_data_received, disk, readonly, script, pos, rx, buffer, line,
                   out, health, runpc, rwake, mpc, mwake, spc, iofails, reds, rotated,
                   in_reconnect, polled_empty>>

\* log_data: while "\n" in buffer: line, buffer = buffer.split("\n", 1);
\* line = line.strip(); after the loop, rotate_logs_if_needed
RL_Split ==
    /\ rpc = "split"
    /\ IF HasNewline(buffer)
       THEN /\ line' = Strip(SplitFirst(buffer).line)
            /\ buffer' = SplitFirst(buffer).rest
            /\ rpc' = "wopen"
       ELSE /\ rpc' = "rotate"
            /\ UNCHANGED <<line, buffer>>
    /\ UNCHANGED <<now, config, is_logging, serial_port, log_file, current_log_size,
                   last_data_received, disk, readonly, script, pos, rx, out, health,
                   runpc, rwake, mpc, mwake, spc, faults, iofails, errors, reds,
                   rotated,
                   in_reconnect, polled_empty>>

\* write_to_log_file: open(self.log_file, 'a').  A read-only file raises
\* PermissionError, which log_data does not catch: the thread ends.
RL_WOpen ==
    /\ rpc = "wopen"
    /\ IF log_file \in readonly
       THEN /\ rpc' = "crashed"
            /\ UNCHANGED disk
       ELSE /\ disk' = Touched(disk, log_file)
            /\ rpc' = "wwrite"
    /\ UNCHANGED <<now, config, is_logging, serial_port, log_file, current_log_size,
                   last_data_received, readonly, script, pos, rx, buffer, line, out,
                   health, runpc, rwake, mpc, mwake, spc, faults, iofails, errors,
                   reds, rotated,
                   in_reconnect, polled_empty>>

\* write_to_log_file: the file system rejects the open (OSError)
RL_WOpenFail ==
    /\ rpc = "wopen"
    /\ iofails < MaxIOFails
    /\ iofails' = iofails + 1
    /\ rpc' = "crashed"
    /\ UNCHANGED <<now, config, is_logging, serial_port, log_file, current_log_size,
                   last_data_received, disk, readonly, script, pos, rx, buffer, line,
                   out, health, runpc, rwake, mpc, mwake, spc, faults, errors, reds,
                   rotated,
                   in_reconnect, polled_empty>>

\* write_to_log_file: f.write(data) on the handle opened before, close;
\* self.current_log_size += len(data)
RL_WWrite ==
    /\ rpc = "wwrite"
    /\ disk' = Appended(disk, log_file, Append(line, NL))
    /\ current_log_size' = current_log_size + Len(line) + 1
    /\ rpc' = "emit"
    /\ UNCHANGED <<now, config, is_logging, serial_port, log_file, last_data_received,
                   readonly, script, pos, rx, buffer, line, out, health, runpc, rwake,
                   mpc, mwake, spc, faults, iofails, errors, reds, rotated,
                   in_reconnect, polled_empty>>

\* log_data: self.update_gui_output(line + "\n")
RL_Emit ==
    /\ rpc = "emit"
    /\ out' = Append(out, Append(line, NL))
    /\ rpc' = "split"
    /\ UNCHANGED <<now, config, is_logging, serial_port, log_file, current_log_size,
                   last_data_received, disk, readonly, script, pos, rx, buffer, line,
                   health, runpc, rwake, mpc, mwake, spc, faults, iofails, errors,
                   reds, rotated,
                   in_reconnect, polled_empty>>

\* The step below with the file rotated away from made read-only.
RL_RotateFinalize ==
    /\ rpc = "rotate"
    /\ IF log_file \notin DOMAIN disk
       THEN /\ rpc' = "crashed"
            /\ UNCHANGED <<log_file, rotated, readonly>>
       ELSE /\ rpc' = "while"
            /\ IF NeedsRotation(GetSize(disk, log_file), LogMaxSize(config))
               THEN /\ log_file' = FileName(now)
                    /\ rotated' = rotated + 1
                    /\ readonly' = readonly \cup {log_file}
               ELSE UNCHANGED <<log_file, rotated, readonly>>
    /\ UNCHANGED <<now, config, is_logging, serial_port, current_log_size,
                   last_data_received, disk, script, pos, rx, buffer, line, out,
                   health, runpc, rwake, mpc, mwake, spc, faults, iofails, errors,
                   reds, in_reconnect, polled_empty>>

\* rotate_logs_if_needed: os.path.getsize raises FileNotFoundError for a path
\* nothing was written to yet, which log_data does not catch
RL_Rotate ==
    /\ rpc = "rotate"
    /\ IF log_file \notin DOMAIN disk
       THEN /\ rpc' = "crashed"
            /\ UNCHANGED <<log_file, rotated>>
       ELSE /\ rpc' = "while"
            /\ IF NeedsRotation(GetSize(disk, log_file), LogMaxSize(config))
               THEN /\ log_file' = FileName(now)
                    /\ rotated' = rotated + 1
               ELSE UNCHANGED <<log_file, rotated>>
    /\ UNCHANGED <<now, config, is_logging, serial_port, current_log_size,
                   last_data_received, disk, readonly, script, pos, rx, buffer, line,
                   out, health, runpc, rwake, mpc, mwake, spc, faults, iofails, errors,
                   reds,
                   in_reconnect, polled_empty>>

\* The step below with the carry-over of log_data emptied by the except clause.
RL_LostDropsBuffer ==
    /\ rpc = "lost"
    /\ out' = Append(out, LostMsg)
    /\ buffer' = <<>>
    /\ rpc' = "red"
    /\ UNCHANGED <<now, config, is_logging, serial_port, log_file, current_log_size,
                   last_data_received, disk, readonly, script, pos, rx, line, health,
                   runpc, rwake, mpc, mwake, spc, faults, iofails, errors, reds,
                   rotated, in_reconnect, polled_empty>>

\* log_data, except SerialException: self.update_gui_output("Serial connection lost.\n")
RL_Lost ==
    /\ rpc = "lost"
    /\ out' = Append(out, LostMsg)
    /\ rpc' = "red"
    /\ UNCHANGED <<now, config, is_logging, serial_port, log_file, current_log_size,
                   last_data_received, disk, readonly, script, pos, rx, buffer, line,
                   health, runpc, rwake, mpc, mwake, spc, faults, iofails, errors,
                   reds, rotated,
                   in_reconnect, polled_empty>>

\* The step below without the call of status_callback.
RL_RedOmitted ==
    /\ rpc = "red"
    /\ rwake' = now + reconnect_delay
    /\ rpc' = "sleep"
    /\ in_reconnect' = TRUE
    /\ UNCHANGED <<now, config, is_logging, serial_port, log_file, current_log_size,
                   last_data_received, disk, readonly, script, pos, rx, buffer, line,
                   out, health, runpc, mpc, mwake, spc, faults, iofails, errors, reds,
                   rotated, polled_empty>>

\* The step below with reconnect_after_delay started on a thread of its own
\* while log_data goes on with its loop.
RL_RedAsync ==
    /\ rpc = "red"
    /\ health' = "red"
    /\ reds' = reds + 1
    /\ rwake' = now + reconnect_delay
    /\ rpc' = "while"
    /\ in_reconnect' = TRUE
    /\ UNCHANGED <<now, config, is_logging, serial_port, log_file, current_log_size,
                   last_data_received, disk, readonly, script, pos, rx, buffer, line,
                   out, runpc, mpc, mwake, spc, faults, iofails, errors, rotated,
                   polled_empty>>

\* log_data, except SerialException: self.status_callback("red"), then
\* reconnect_after_delay begins its time.sleep(600)
RL_Red ==
    /\ rpc = "red"
    /\ health' = "red"
    /\ reds' = reds + 1
    /\ rwake' = now + reconnect_delay
    /\ rpc' = "sleep"
    /\ in_reconnect' = TRUE
    /\ UNCHANGED <<now, config, is_logging, serial_port, log_file, current_log_size,
                   last_data_received, disk, readonly, script, pos, rx, buffer, line,
                   out, runpc, mpc, mwake, spc, faults, iofails, errors, rotated, polled_empty>>

\* reconnect_after_delay: time.sleep(600) returns
RL_Wake ==
    /\ rpc = "sleep"
    /\ rwake = 0
    /\ rpc' = "reopen"
    /\ polled_empty' = FALSE
    /\ UNCHANGED <<now, config, is_logging, serial_port, log_file, current_log_size,
                   last_data_received, disk, readonly, script, pos, rx, buffer, line,
                   out, health, runpc, rwake, mpc, mwake, spc, faults, iofails, errors,
                   reds, rotated,
                   in_reconnect>>

\* The step below with a new log file chosen on reconnection.
RL_ReopenNewFile ==
    /\ rpc = "reopen"
    /\ IF serial_port = "closed"
       THEN serial_port' = "open" /\ rx' = <<>>
       ELSE UNCHANGED <<serial_port, rx>>
    /\ log_file' = FileName(now)
    /\ rpc' = "isopen"
    /\ UNCHANGED <<now, config, is_logging, current_log_size, last_data_received, disk,
                   readonly, script, pos, buffer, line, out, health, runpc, rwake, mpc,
                   mwake, spc, faults, iofails, errors, reds, rotated,
                   in_reconnect, polled_empty>>

\* reconnect_after_delay: if self.serial_port is not None and not
\* self.serial_port.is_open: self.serial_port.open()
RL_Reopen ==
    /\ rpc = "reopen"
    /\ IF serial_port = "closed"
       THEN serial_port' = "open" /\ rx' = <<>>
       ELSE UNCHANGED <<serial_port, rx>>
    /\ rpc' = "isopen"
    /\ UNCHANGED <<now, config, is_logging, log_file, current_log_size,
                   last_data_received, disk, readonly, script, pos, buffer, line, out,
                   health, runpc, rwake, mpc, mwake, spc, faults, iofails, errors,
                   reds, rotated,
                   in_reconnect, polled_empty>>

\* reconnect_after_delay: self.serial_port.open() raises SerialException inside
\* the except clause of log_data: the thread ends
RL_ReopenFail ==
    /\ rpc = "reopen"
    /\ serial_port = "closed"
    /\ faults < MaxFaults
    /\ faults' = faults + 1
    /\ rpc' = "crashed"
    /\ in_reconnect' = FALSE
    /\ UNCHANGED <<now, config, is_logging, serial_port, log_file, current_log_size,
                   last_data_received, disk, readonly, script, pos, rx, buffer, line,
                   out, health, runpc, rwake, mpc, mwake, spc, iofails, errors, reds,
                   rotated, polled_empty>>

\* reconnect_after_delay: if self.serial_port.is_open: self.status_callback("green")
RL_IsOpen ==
    /\ rpc = "isopen"
    /\ health' = IF serial_port = "open" THEN "green" ELSE health
    /\ rpc' = "while"
    /\ in_reconnect' = FALSE
    /\ UNCHANGED <<now, config, is_logging, serial_port, log_file, current_log_size,
                   last_data_received, disk, readonly, script, pos, rx, buffer, line,
                   out, runpc, rwake, mpc, mwake, spc, faults, iofails, errors, reds,
                   rotated, polled_empty>>

\* check_connection_status: while self.is_logging
M_While ==
    /\ mpc = "while"
    /\ mpc' = IF is_logging THEN "check" ELSE "done"
    /\ UNCHANGED <<now, config, is_logging, serial_port, log_file, current_log_size,
                   last_data_received, disk, readonly, script, pos, rx, buffer, line,
                   out, health, runpc, rpc, rwake, mwake, spc, faults, iofails, errors,
                   reds, rotated,
                   in_reconnect, polled_empty>>

\* check_connection_status: elapsed_time = time.time() - self.last_data_received;
\* yellow or green; then time.sleep(10) begins
M_Check ==
    /\ mpc = "check"
    /\ health' = IF IsStale(now - last_data_received) THEN "yellow" ELSE "green"
    /\ mwake' = now + check_interval
    /\ mpc' = "sleep"
    /\ UNCHANGED <<now, config, is_logging, serial_port, log_file, current_log_size,
                   last_data_received, disk, readonly, script, pos, rx, buffer, line,
                   out, runpc, rpc, rwake, spc, faults, iofails, errors, reds, rotated,
                   in_reconnect, polled_empty>>

\* check_connection_status: time.sleep(10) returns
M_Wake ==
    /\ mpc = "sleep"
    /\ mwake = 0
    /\ mpc' = "while"
    /\ UNCHANGED <<now, config, is_logging, serial_port, log_file, current_log_size,
                   last_data_received, disk, readonly, script, pos, rx, buffer, line,
                   out, health, runpc, rpc, rwake, mwake, spc, faults, iofails, errors,
                   reds, rotated,
                   in_reconnect, polled_empty>>

\* stop_logging, called by the operator on an active session:
\* self.is_logging = False; if self.serial_port: self.serial_port.close();
\* if self.log_file: os.chmod(self.log_file, 0o444), which raises FileNotFoundError
\* when nothing was written to that path
stop_logging ==
    /\ spc = "idle"
    /\ is_logging
    /\ is_logging' = FALSE
    /\ IF serial_port # "None"
       THEN serial_port' = "closed" /\ rx' = <<>>
       ELSE UNCHANGED <<serial_port, rx>>
    /\ IF log_file = None
       THEN spc' = "returned" /\ UNCHANGED readonly
       ELSE IF log_file \in DOMAIN disk
            THEN spc' = "returned" /\ readonly' = readonly \cup {log_file}
            ELSE spc' = "raised" /\ UNCHANGED readonly
    /\ UNCHANGED <<now, config, log_file, current_log_size, last_data_received, disk,
                   script, pos, buffer, line, out, health, runpc, rpc, rwake, mpc,
                   mwake, faults, iofails, errors, reds, rotated,
                   in_reconnect, polled_empty>>

Next ==
    \/ Tick
    \/ Arrive
    \/ CreateNewLogFile
    \/ Run_Flag
    \/ Run_Open
    \/ Run_OpenFail
    \/ Run_Spawn
    \/ RL_While
    \/ RL_Poll
    \/ RL_PollFault
    \/ RL_Split
    \/ RL_WOpen
    \/ RL_WOpenFail
    \/ RL_WWrite
    \/ RL_Emit
    \/ RL_Rotate
    \/ RL_Lost
    \/ RL_Red
    \/ RL_Wake
    \/ RL_Reopen
    \/ RL_ReopenFail
    \/ RL_IsOpen
    \/ M_While
    \/ M_Check
    \/ M_Wake
    \/ stop_logging

Spec == Init /\ [][Next]_vars

----------------------------------------------------------------------------
(* The line reassembly of log_data alone: a text, cut into chunks at arbitrary *)
(* places, is passed chunk by chunk through buffer += data and the loop over   *)
(* the complete lines.  script holds the whole text, rx what is still to be    *)
(* fed, pos the number of chunks fed, out the lines emitted.                   *)

FeedAlphabet == {"a", " ", NL}

Texts == UNION {[1..n -> FeedAlphabet] : n \in 0..MaxLen}

FeedInit ==
    /\ now = 0
    /\ config = [k \in {} |-> 0]
    /\ is_logging = TRUE
    /\ serial_port = "open"
    /\ log_file = FileName(now)
    /\ current_log_size = 0
    /\ last_data_received = now
    /\ disk = [f \in {} |-> <<>>]
    /\ readonly = {}
    /\ \E t \in Texts : script = <<t>> /\ rx = t
    /\ pos = 0
    /\ buffer = <<>>
    /\ line = <<>>
    /\ out = <<>>
    /\ health = "green"
    /\ runpc = "done"
    /\ rpc = "split"
    /\ rwake = 0
    /\ mpc = "none"
    /\ mwake = 0
    /\ spc = "idle"
    /\ faults = 0
    /\ iofails = 0
    /\ errors = 0
    /\ reds = 0
    /\ rotated = 0
    /\ in_reconnect = FALSE
    /\ polled_empty = FALSE

\* log_data: the next k characters are read; buffer += data; every complete line
\* is split off, stripped and emitted.
Feed ==
    /\ rx # <<>>
    /\ \E k \in 1..Len(rx) :
          /\ buffer' = FeedChunk(buffer, SubSeq(rx, 1, k)).buffer
          /\ out' = out \o FeedChunk(buffer, SubSeq(rx, 1, k)).lines
          /\ rx' = SubSeq(rx, k + 1, Len(rx))
    /\ pos' = pos + 1
    /\ UNCHANGED <<now, config, is_logging, serial_port, log_file, current_log_size,
                   last_data_received, disk, readonly, script, line, health, runpc,
                   rpc, rwake, mpc, mwake, spc, faults, iofails, errors, reds, rotated,
                   in_reconnect, polled_empty>>

FeedNext == Feed

SpecFeed == FeedInit /\ [][FeedNext]_vars

----------------------------------------------------------------------------
(* Auxiliary definitions of the properties. *)

\* log_data is between its except clause and the end of reconnect_after_delay,
\* the red status delivered
Reconnecting == rpc \in {"sleep", "reopen", "isopen"}

\* log_data is handling a SerialException
ErrorPending == rpc \in {"lost", "red", "sleep", "reopen", "isopen"}

\* log_data is processing a chunk it has read
InBatch == rpc \in {"split", "wopen", "wwrite", "emit", "rotate"}

\* this step is the monitor's status_callback
MonitorDelivers == mpc = "check" /\ mpc' = "sleep"

\* this step delivers something to the widget or to status_callback
CoreDelivers ==
    \/ out' # out
    \/ rpc = "red" /\ rpc' = "sleep"
    \/ rpc = "isopen" /\ rpc' = "while" /\ serial_port = "open"
    \/ MonitorDelivers

Seconds(f) == f[1] * 3600 + f[2] * 60 + f[3]

RECURSIVE FilesInOrder(_, _)
\* the contents of the files fs of d, one after the other, oldest name first
FilesInOrder(d, fs) ==
    IF fs = {} THEN <<>>
    ELSE LET f == CHOOSE g \in fs : \A h \in fs : Seconds(g) <= Seconds(h)
         IN  d[f] \o FilesInOrder(d, fs \ {f})

AllWritten == FilesInOrder(disk, DOMAIN disk)

LinesOf(o) == SelectSeq(o, LAMBDA x : x # LostMsg)

LostCount(o) == Len(SelectSeq(o, LAMBDA x : x = LostMsg))

SizeOf(d, f) == IF f \in DOMAIN d THEN GetSize(d, f) ELSE 0

L1 == <<"a", "b", NL>>
L2 == <<"c", "d", "e", "f", "g", "h", NL>>
L3 == <<"i", "j", NL>>

\* the scenario: threshold 10, the lines "ab\n", "cdefgh\n", "ij\n"
Scenario == script = ScriptRotation /\ LogMaxSize(config) = 10

FirstFile == CHOOSE f \in DOMAIN disk : disk[f] # <<>> /\ disk[f][1] = L1

----------------------------------------------------------------------------
(* C1 *)

\* C1: once a text has been fed completely, in whatever chunks, the lines emitted
\* and the carry-over left in the buffer are those of feeding the whole text as
\* one chunk.
C1_ChunkIndependent ==
    rx = <<>> =>
        /\ out = FeedChunk(<<>>, script[1]).lines
        /\ buffer = FeedChunk(<<>>, script[1]).buffer

\* a text of three characters fed one character at a time, a line completed by a
\* later chunk than the one that began it, and a carry-over left
C1_Witness ==
    /\ rx = <<>>
    /\ Len(script[1]) = 3
    /\ pos = 3
    /\ out = << <<"a", NL>> >>
    /\ buffer = <<"a">>

----------------------------------------------------------------------------
(* C2 *)

\* C2 as stated: at a check of the monitor with no transport error pending, green
\* is emitted exactly when elapsed < 60 and yellow exactly when elapsed >= 60.
C2_Original ==
    [][(MonitorDelivers /\ ~ErrorPending) =>
          /\ (health' = "green") <=> (now - last_data_received < 60)
          /\ (health' = "yellow") <=> (now - last_data_received >= 60)]_vars

\* C2 amended: at a check of the monitor with no transport error pending, green is
\* emitted exactly when elapsed <= 60 and yellow exactly when elapsed > 60.
C2_Amended ==
    [][(MonitorDelivers /\ ~ErrorPending) =>
          /\ (health' = "green") <=> (now - last_data_received <= 60)
          /\ (health' = "yellow") <=> (now - last_data_received > 60)]_vars

\* the monitor has just checked at elapsed = 60 and emitted green
C2_Witness ==
    /\ mpc = "sleep"
    /\ mwake = now + check_interval
    /\ now - last_data_received = 60
    /\ health = "green"
    /\ ~ErrorPending
    /\ rpc # "none"

----------------------------------------------------------------------------
(* C3 *)

\* C3 as stated: between the red status of a transport error and the end of the
\* reconnection, the monitor delivers no green or yellow status.
C3_Original == [][Reconnecting => ~MonitorDelivers]_vars

----------------------------------------------------------------------------
(* C4 *)

\* C4 as stated: a rotation leaves a different, strictly smaller active file, and
\* the lines emitted are, in order and once each, the contents of the session's
\* files (the line being written counted).
C4_Original ==
    [][/\ rotated' = rotated + 1 =>
             /\ log_file' # log_file
             /\ SizeOf(disk', log_file') < SizeOf(disk, log_file)
       /\ \/ LinesOf(out') = AllWritten'
          \/ rpc' = "emit" /\ Append(LinesOf(out'), Append(line', NL)) = AllWritten']_vars

----------------------------------------------------------------------------
(* C5 *)

----------------------------------------------------------------------------
(* C6 *)

\* C6 as stated: once stop_logging has been called, the flag stays false and no
\* thread of the session opens the closed device handle again.
C6_Original ==
    [][spc # "idle" =>
          /\ ~is_logging'
          /\ ~(serial_port = "closed" /\ serial_port' = "open")]_vars

----------------------------------------------------------------------------
(* C7 *)

\* C7 as stated: after stop_logging has returned, neither loop delivers anything
\* to the widget or to status_callback.
C7_Original == [][spc = "returned" => ~CoreDelivers]_vars

----------------------------------------------------------------------------
(* C8 *)

\* C8 as stated: the content of a file that stop_logging has made read-only never
\* changes again.
C8_Original == [][\A f \in readonly \cap DOMAIN disk : disk'[f] = disk[f]]_vars

----------------------------------------------------------------------------
(* C9 *)

\* C9: whenever log_data is in the backoff wait or about to reopen the handle,
\* the "connection lost" line and the red status have been delivered for every
\* SerialException caught so far, this one included; neither is delivered before
\* its error.
C9_NotifiedBeforeReconnect ==
    /\ Reconnecting =>
          /\ errors >= 1
          /\ LostCount(out) = errors
          /\ reds = errors
          /\ out[Len(out)] = LostMsg
    /\ LostCount(out) <= errors
    /\ reds <= LostCount(out)

\* the backoff after a transport error is over and the reopen is about to be tried
C9_Witness == rpc = "reopen" /\ errors = 1 /\ reds = 1 /\ LostCount(out) = 1

----------------------------------------------------------------------------
(* C10 *)

\* C10 as stated: after a file system failure, as long as the flag is set, the
\* read loop is still running.
C10_Original == (iofails > 0 /\ is_logging) => rpc # "crashed"
----------------------------------------------------------------------------
(* C11 *)

\* C11: from the SerialException to the end of reconnect_after_delay no step
\* changes the active log file path or creates a file; when the port is open at
\* the end of reconnect_after_delay, green is delivered and the read loop is back
\* at the test of its while loop.
C11_ReconnectKeepsLogFile ==
    [][/\ ErrorPending => (log_file' = log_file /\ DOMAIN disk' = DOMAIN disk)
       /\ (rpc = "isopen" /\ rpc' # rpc /\ serial_port = "open") =>
             (health' = "green" /\ rpc' = "while")]_vars

\* a session that had written to its file has gone through a transport error, the
\* backoff and the reopen step, reported green and is polling again on that file
C11_Witness ==
    /\ rpc = "poll"
    /\ errors = 1
    /\ now >= reconnect_delay
    /\ health = "green"
    /\ serial_port = "open"
    /\ is_logging
    /\ log_file \in DOMAIN disk
    /\ disk[log_file] # <<>>
    /\ rotated = 0
    /\ in_reconnect = FALSE
    /\ polled_empty = FALSE

----------------------------------------------------------------------------
(* C12 *)

\* C12 as stated: every line emitted by the read loop sets the last-data
\* timestamp to the time of that line.
C12_Original ==
    [][(rpc = "emit" /\ rpc' = "split") => last_data_received' = now]_vars

----------------------------------------------------------------------------
\* Termination after stop (claim C14): the three threads under fair scheduling

\* time.sleep(10) of check_connection_status and time.sleep(600) of
\* reconnect_after_delay always return: once the session is stopped, the clock
\* runs past MaxTime up to the sleeps that are still pending
Elapse ==
    /\ ~is_logging
    /\ \E t \in {rwake, mwake} : t > MaxTime /\ now' = t
    /\ rwake' = Pending(rwake, now')
    /\ mwake' = Pending(mwake, now')
    /\ UNCHANGED <<config, is_logging, serial_port, log_file, current_log_size,
                   last_data_received, disk, readonly, script, pos, rx, buffer, line,
                   out, health, runpc, rpc, mpc, spc, faults, iofails, errors, reds,
                   rotated, in_reconnect, polled_empty>>

\* the steps of the thread that executes run
RunStep == Run_Flag \/ Run_Open \/ Run_OpenFail \/ Run_Spawn

\* the steps of the thread that executes log_data
ReadLoopStep ==
    \/ RL_While \/ RL_Poll \/ RL_PollFault \/ RL_Split \/ RL_WOpen \/ RL_WOpenFail
    \/ RL_WWrite \/ RL_Emit \/ RL_Rotate \/ RL_Lost \/ RL_Red \/ RL_Wake
    \/ RL_Reopen \/ RL_ReopenFail \/ RL_IsOpen

\* the steps of the thread that executes check_connection_status
MonitorStep == M_While \/ M_Check \/ M_Wake

NextLive == Next \/ Elapse

\* one chunk that carries a complete line and the beginning of the next
ScriptShort == <<<<"a", NL, "b">>>>

\* a session with the default log_max_size on a device that sends ScriptShort
InitLive ==
    /\ now = 0
    /\ config = [k \in {} |-> 0]
    /\ script = ScriptShort
    /\ is_logging = FALSE
    /\ serial_port = "None"
    /\ log_file = None
    /\ current_log_size = 0
    /\ last_data_received = now
    /\ disk = [f \in {} |-> <<>>]
    /\ readonly = {}
    /\ pos = 0
    /\ rx = <<>>
    /\ buffer = <<>>
    /\ line = <<>>
    /\ out = <<>>
    /\ health = "red"
    /\ runpc = "create"
    /\ rpc = "none"
    /\ rwake = 0
    /\ mpc = "none"
    /\ mwake = 0
    /\ spc = "idle"
    /\ faults = 0
    /\ iofails = 0
    /\ errors = 0
    /\ reds = 0
    /\ rotated = 0
    /\ in_reconnect = FALSE
    /\ polled_empty = FALSE

\* Every started thread keeps being scheduled and the clock keeps running.
SpecLive ==
    /\ InitLive
    /\ [][NextLive]_vars
    /\ WF_vars(Tick)
    /\ WF_vars(Elapse)
    /\ WF_vars(RunStep)
    /\ WF_vars(ReadLoopStep)
    /\ WF_vars(MonitorStep)

\* run has ended and so has every thread it started
ThreadsEnded ==
    \/ runpc = "crashed" /\ rpc = "none" /\ mpc = "none"
    \/ runpc = "done" /\ rpc \in {"done", "crashed"} /\ mpc = "done"

\* C14: once stop_logging has cleared is_logging, a thread that evaluates its
\* `while self.is_logging` leaves the loop there, and under fair scheduling the
\* read loop and the monitor both terminate and stay terminated, wherever they
\* were when the flag was cleared.
C14_StopTerminates ==
    /\ [][/\ (~is_logging /\ rpc = "while" /\ rpc' # rpc) => rpc' = "done"
          /\ (~is_logging /\ mpc = "while" /\ mpc' # mpc) => mpc' = "done"]_vars
    /\ [](spc # "idle" => <>[]ThreadsEnded)

\* C14 witness: both loops have ended at their flag test after a stop that
\* found the read loop in, or sent it into, the 600 s backoff (the clock had to
\* run past MaxTime for it) with a line already logged
C14_Witness ==
    /\ spc = "returned" /\ rpc = "done" /\ mpc = "done"
    /\ reds >= 1 /\ now > MaxTime + check_interval
    /\ LinesOf(out) # <<>>

\* C15: the read loop is never about to poll or read the device handle while a
\* call of reconnect_after_delay on that handle is in progress: log_data calls
\* it synchronously from its except clause and run starts one log_data thread.
C15_HandleSerialized == ~(rpc = "poll" /\ in_reconnect)

\* C15 witness: a reconnection is at its reopen step on the open handle of a
\* running session while unread bytes wait in the receive buffer
C15_Witness ==
    /\ in_reconnect /\ rpc = "reopen" /\ serial_port = "open" /\ is_logging
    /\ rx # <<>>

\* C16: a file is made read-only only by the step of stop_logging, and the file
\* it marks is the one self.log_file names at that step; a rotation replaces
\* self.log_file and changes neither the permissions nor the content of any
\* file, the one it leaves behind included.
C16_ReadOnlyOnlyByStop ==
    [][/\ readonly' # readonly =>
             /\ spc = "idle" /\ spc' = "returned"
             /\ readonly' = readonly \cup {log_file}
       /\ rotated' # rotated => (readonly' = readonly /\ disk' = disk)]_vars

\* C16 witness: after a rotation and a stop, the file that was active at the
\* stop is read-only and the file left behind, with its lines, is not
C16_Witness ==
    /\ rotated >= 1 /\ spc = "returned"
    /\ log_file \in readonly
    /\ \E f \in DOMAIN disk \ readonly : f # log_file /\ disk[f] # <<>>

\* C17: when serial.Serial(...) fails in run, the session enters Failed: the
\* Sink has been given "red" by the core and the read loop exists to run the
\* reconnection cycle, instead of the flag being set with no thread started.
C17_Original ==
    runpc = "crashed" => (reds >= 1 /\ rpc # "none" /\ mpc # "none")

\* C18: while the session reads, a poll that finds no bytes is never the second
\* such poll in a row without a sleep or timeout wait of the read loop in
\* between.
C18_Original ==
    [][(is_logging /\ rpc = "poll" /\ serial_port = "open" /\ rx = <<>>
        /\ rpc' = "while") => ~polled_empty]_vars

\* C19: whenever rotate_logs_if_needed is about to call os.path.getsize on
\* self.log_file, that file exists.
C19_Original == rpc = "rotate" => log_file \in DOMAIN disk

\* C20: from the SerialException to the return of reconnect_after_delay the
\* carry-over `buffer` of log_data does not change and no line is emitted; the
\* line completed afterwards is the retained text followed by the new text up
\* to the newline: on ScriptPartial the second line is always "b", whose
\* beginning " b" arrives one chunk before its end " \n".
C20_CarryOverKept ==
    /\ [][(ErrorPending \/ ErrorPending') =>
             (buffer' = buffer /\ LinesOf(out') = LinesOf(out))]_vars
    /\ [](script = ScriptPartial /\ Len(LinesOf(out)) >= 2 =>
             LinesOf(out)[2] = <<"b", NL>>)

\* C20 witness: the connection was lost after the first line, while " b" was
\* held back, and after the reconnection the line "b" has been emitted
C20_Witness ==
    /\ script = ScriptPartial /\ errors = 1 /\ is_logging
    /\ Len(out) = 3 /\ out[2] = LostMsg /\ out[3] = <<"b", NL>>
    /\ buffer = <<>>

====
